---- MODULE Spec2Model ----
(***************************************************************************)
(* News-Summary (app.py): the NewsExtractor / NewsSummarizer pipeline and  *)
(* the /api/summarize handler as a state machine.  Python strings are      *)
(* sequences of one-character strings, so that strip, split, join,         *)
(* substring search and the regular-expression clean-up are computed and   *)
(* not assumed.  None is the empty set and a present value v is {v}.       *)
(***************************************************************************)
EXTENDS Integers, Sequences, FiniteSets, TLC

\* ------------------------------------------------------------------ bounds
\* Largest number of elements of a fetched document.
MaxElems == 2

\* ------------------------------------------------------- program constants
MinContentLen == 100
MinParagraphLen == 20
FallbackMaxChars == 500
FallbackSentences == 3
PromptContentChars == 3000

\* --------------------------------------------------------- optional values
None == {}
Some(v) == {v}
TheValue(o) == CHOOSE v \in o : TRUE

\* ------------------------------------------------------------ str helpers
Min(S) == CHOOSE i \in S : \A j \in S : i <= j
Max(S) == CHOOSE i \in S : \A j \in S : j <= i

\* str.isspace() for the characters of the model's alphabet
IsSpace(c) == c \in {" ", "\n", "\t", "\r"}

\* str.strip(): from the first to the last non-blank character
Strip(s) ==
    LET n == Len(s)
    IN  IF \A i \in 1..n : IsSpace(s[i]) THEN <<>>
        ELSE SubSeq(s,
                    CHOOSE i \in 1..n : ~IsSpace(s[i]) /\ \A j \in 1..(i - 1) : IsSpace(s[j]),
                    CHOOSE i \in 1..n : ~IsSpace(s[i]) /\ \A j \in (i + 1)..n : IsSpace(s[j]))

\* s[:n]
Prefix(s, n) == SubSeq(s, 1, IF Len(s) < n THEN Len(s) ELSE n)

\* s.startswith(p)
StartsWith(s, p) == Len(s) >= Len(p) /\ SubSeq(s, 1, Len(p)) = p

\* p in s
Contains(s, p) == \E i \in 1..(Len(s) - Len(p) + 1) : SubSeq(s, i, i + Len(p) - 1) = p

\* s.find(c), 1-based, 0 when absent
Find(s, c) ==
    LET Hits == {i \in 1..Len(s) : s[i] = c}
    IN  IF Hits = {} THEN 0 ELSE Min(Hits)

\* sep.join(parts)
RECURSIVE Join(_, _)
Join(parts, sep) ==
    IF parts = <<>> THEN <<>>
    ELSE IF Len(parts) = 1 THEN parts[1]
    ELSE parts[1] \o sep \o Join(Tail(parts), sep)

\* the k-th smallest element of a set of integers
Nth(S, k) == CHOOSE i \in S : Cardinality({j \in S : j < i}) = k - 1

\* s.replace('\n', ' ')
ReplaceNewlines(s) == [i \in 1..Len(s) |-> IF s[i] = "\n" THEN " " ELSE s[i]]

\* s.split('. '): occurrences of ". " cannot overlap, so the separators are
\* exactly the positions of a "." followed by a " ".
SplitSentences(s) ==
    LET n == Len(s)
        Seps == {i \in 1..(n - 1) : s[i] = "." /\ s[i + 1] = " "}
        m == Cardinality(Seps)
    IN  [k \in 1..(m + 1) |->
            SubSeq(s, IF k = 1 THEN 1 ELSE Nth(Seps, k - 1) + 2,
                      IF k = m + 1 THEN n ELSE Nth(Seps, k) - 1)]

\* the maximal runs of non-blank characters of s, in order
Words(s) ==
    LET n == Len(s)
        Starts == {i \in 1..n : ~IsSpace(s[i]) /\ (i = 1 \/ IsSpace(s[i - 1]))}
        Ends == {i \in 1..n : ~IsSpace(s[i]) /\ (i = n \/ IsSpace(s[i + 1]))}
    IN  [k \in 1..Cardinality(Starts) |-> SubSeq(s, Nth(Starts, k), Nth(Ends, k))]

\* re.sub(r'\s+', ' ', s): every maximal run of whitespace becomes one " ",
\* so the words stay, single blanks separate them, and a blank stands at an
\* end where s has whitespace there.
CollapseWhitespace(s) ==
    LET n == Len(s)
        words == Words(s)
    IN  IF n = 0 THEN <<>>
        ELSE IF words = <<>> THEN <<" ">>
        ELSE (IF IsSpace(s[1]) THEN <<" ">> ELSE <<>>)
             \o Join(words, <<" ">>)
             \o (IF IsSpace(s[n]) THEN <<" ">> ELSE <<>>)

\* re.sub(r'\s+', ' ', content).strip()
Normalize(s) == Strip(CollapseWhitespace(s))

\* --------------------------------------------------------------- urlparse
Alpha == {"a","b","c","d","e","f","g","h","i","j","k","l","m","n","o","p","q",
          "r","s","t","u","v","w","x","y","z","A","B","C","D","E","F","G","H",
          "I","J","K","L","M","N","O","P","Q","R","S","T","U","V","W","X","Y","Z"}
Digits == {"0","1","2","3","4","5","6","7","8","9"}
SchemeChars == Alpha \cup Digits \cup {"+", "-", "."}

\* urllib.parse.urlparse(url): the scheme and netloc it yields, and whether
\* it raises ValueError ("Invalid IPv6 URL": unbalanced brackets in netloc).
UrlParse(url) ==
    LET n == Len(url)
        colon == Find(url, ":")
        hasScheme == /\ colon > 1
                     /\ url[1] \in Alpha
                     /\ \A k \in 1..(colon - 1) : url[k] \in SchemeChars
        scheme == IF hasScheme THEN SubSeq(url, 1, colon - 1) ELSE <<>>
        rest == IF hasScheme THEN SubSeq(url, colon + 1, n) ELSE url
        hasNetloc == StartsWith(rest, <<"/","/">>)
        Delims == {i \in 3..Len(rest) : rest[i] \in {"/", "?", "#"}}
        netlocEnd == IF Delims = {} THEN Len(rest) ELSE Min(Delims) - 1
        netloc == IF hasNetloc THEN SubSeq(rest, 3, netlocEnd) ELSE <<>>
        open == \E i \in 1..Len(netloc) : netloc[i] = "["
        close == \E i \in 1..Len(netloc) : netloc[i] = "]"
    IN  [raises |-> (open /\ ~close) \/ (close /\ ~open),
         scheme |-> scheme,
         netloc |-> netloc]

\* _is_valid_url with any([...]) in place of all([...])
IsValidUrlAny(url) ==
    LET r == UrlParse(url)
    IN  IF r.raises THEN FALSE ELSE r.scheme # <<>> \/ r.netloc # <<>>

\* NewsExtractor._is_valid_url: all([scheme, netloc]), False on any exception
IsValidUrl(url) ==
    LET r == UrlParse(url)
    IN  IF r.raises THEN FALSE ELSE r.scheme # <<>> /\ r.netloc # <<>>

\* url strings handed to the handler and to extract_content: valid, padded
\* with blanks, without scheme, without host, with unbalanced brackets,
\* demo urls, blank and empty
UrlSamples ==
    { <<"h","t","t","p",":","/","/","a",".","c","o","/","x">>, <<" "," ","h","t","t","p",":","/","/","a",".","c","o","/","x"," ">>, <<"a",".","c","o","/","x">>, <<"/","/","a",".","c","o","/","x">>,
      <<"h","t","t","p",":","/","x">>, <<"h","t","t","p",":","/","/">>, <<"h","t","t","p",":","/","/","[","a","/","x">>, <<"h","t","t","p",":","/","/","a","]","b","/">>,
      <<"1","t","t","p",":","/","/","a",".","c","o">>, <<"m","a","i","l","t","o",":","x","@","y">>, <<"d","e","m","o",":","/","/","s","a","m","p","l","e","-","n","e","w","s","-","a","r","t","i","c","l","e">>,
      <<"d","e","m","o",":","/","/","x">>, <<" "," ">>, <<>> }

\* --------------------------------------------------------------- documents
\* A parsed page is its elements in document order.  An element of depth 1
\* is a child of the nearest element of depth 0 before it; text is the
\* element's own text, cls its class attribute as a list of class names.
Elem(tag, cls, text, depth) == [tag |-> tag, cls |-> cls, text |-> text, depth |-> depth]

\* element texts: blocks of 50, 200, 120 and 510 characters, paragraphs with
\* inner whitespace, of exactly 20 trimmed characters, and of four sentences
Block50 == [i \in 1..50 |-> "a"]
Block200 == [i \in 1..200 |-> "b"]
Block200c == [i \in 1..200 |-> "c"]
Block120 == [i \in 1..120 |-> "n"]
Block510 == [i \in 1..510 |-> "z"]
ParaWs == <<" ","H","e","l","l","o","\n"," "," "," ","w","i","d","e"," "," ","w","o","r","l",
            "d",","," ","m","o","r","e"," ","t","h","a","n"," ","t","w","e","n","t","y"," ">>
ParaShort == <<" "," ","e","x","a","c","t","l","y"," ","t","w","e","n","t","y"," ","c","h","a","r","s","\n">>
ParaSentences == <<"A"," ","i","s"," ","t","r","u","e","."," ","B"," ","i","s"," ","t","r","u","e",
            "."," ","C"," ","i","s"," ","t","r","u","e","."," ","D"," ","i","s"," ","t","r",
            "u","e",".">>

ElementPool ==
    { Elem("h1", <<>>, <<" "," ">>, 0),
      Elem("h1", <<>>, <<" ","R","e","a","l"," ">>, 0),
      Elem("h1", <<>>, <<"O","t","h","e","r">>, 1),
      Elem("title", <<>>, <<"S","i","t","e">>, 0),
      Elem("div", << <<"p","o","s","t","-","t","i","t","l","e">> >>, <<"C","l","s">>, 0),
      Elem("article", <<>>, Block50, 0),
      Elem("article", <<>>, <<" ">> \o Block200 \o <<"\n">>, 0),
      Elem("article", << <<"w","i","d","e">>, <<"m","a","i","n","-","c","o","n","t","e","n","t">> >>, Block200c, 0),
      Elem("main", <<>>, <<>>, 0),
      Elem("nav", << <<"c","o","n","t","e","n","t">> >>, Block120, 0),
      Elem("p", <<>>, ParaWs, 0),
      Elem("p", <<>>, ParaWs, 1),
      Elem("p", <<>>, ParaShort, 0),
      Elem("p", <<>>, ParaSentences, 1) }

RECURSIVE SeqsUpTo(_, _)
SeqsUpTo(S, n) ==
    IF n = 0 THEN {<<>>}
    ELSE LET shorter == SeqsUpTo(S, n - 1)
         IN  shorter \cup {Append(d, e) : d \in shorter, e \in S}

\* the pages the fetcher may return: a first element is never a child
Documents == {d \in SeqsUpTo(ElementPool, MaxElems) : d = <<>> \/ d[1].depth = 0}

\* element.get_text(): the own text followed by the text of the children
RECURSIVE ChildText(_, _)
ChildText(doc, j) ==
    IF j > Len(doc) \/ doc[j].depth = 0 THEN <<>>
    ELSE doc[j].text \o ChildText(doc, j + 1)

GetText(doc, i) ==
    doc[i].text \o (IF doc[i].depth = 0 THEN ChildText(doc, i + 1) ELSE <<>>)

\* CSS selectors: tag name, .class, [class*="part"]
TagSel(t) == [kind |-> "tag", name |-> t]
ClassSel(c) == [kind |-> "class", name |-> c]
ClassPartSel(c) == [kind |-> "classpart", name |-> c]

Matches(sel, e) ==
    CASE sel.kind = "tag" -> e.tag = sel.name
      [] sel.kind = "class" -> \E k \in 1..Len(e.cls) : e.cls[k] = sel.name
      [] sel.kind = "classpart" -> \E k \in 1..Len(e.cls) : Contains(e.cls[k], sel.name)

\* soup.select(selector): the matching elements in document order
Select(doc, sel) ==
    LET Hits == {i \in 1..Len(doc) : Matches(sel, doc[i])}
    IN  [k \in 1..Cardinality(Hits) |-> Nth(Hits, k)]

\* soup.select_one(selector): the first match, 0 for None
SelectOne(doc, sel) ==
    LET hits == Select(doc, sel)
    IN  IF hits = <<>> THEN 0 ELSE hits[1]

\* the title selectors with 'title' tried before 'h1'
title_selectorsTitleFirst ==
    << TagSel("title"), TagSel("h1"), ClassSel(<<"h","e","a","d","l","i","n","e">>),
       ClassSel(<<"a","r","t","i","c","l","e","-","t","i","t","l","e">>), ClassPartSel(<<"t","i","t","l","e">>),
       ClassPartSel(<<"h","e","a","d","l","i","n","e">>) >>

title_selectors ==
    << TagSel("h1"), TagSel("title"), ClassSel(<<"h","e","a","d","l","i","n","e">>),
       ClassSel(<<"a","r","t","i","c","l","e","-","t","i","t","l","e">>), ClassPartSel(<<"t","i","t","l","e">>),
       ClassPartSel(<<"h","e","a","d","l","i","n","e">>) >>

PlaceholderTitle == <<"A","r","t","i","c","l","e"," ","T","i","t","l","e">>

\* NewsExtractor._extract_title
RECURSIVE TitleFrom(_, _)
TitleFrom(doc, k) ==
    IF k > Len(title_selectors) THEN PlaceholderTitle
    ELSE LET title_elem == SelectOne(doc, title_selectors[k])
         IN  IF title_elem # 0 /\ Strip(GetText(doc, title_elem)) # <<>>
             THEN Strip(GetText(doc, title_elem))
             ELSE TitleFrom(doc, k + 1)

ExtractTitle(doc) == TitleFrom(doc, 1)

NoiseTags == {"script", "style", "nav", "footer", "header", "aside"}

\* for element in soup([...]): element.decompose()
RECURSIVE KeepFrom(_, _, _)
KeepFrom(doc, Removed, i) ==
    IF i > Len(doc) THEN <<>>
    ELSE (IF i \in Removed THEN <<>> ELSE <<doc[i]>>) \o KeepFrom(doc, Removed, i + 1)

Decompose(doc) ==
    LET Parent(i) == Max({j \in 1..i : doc[j].depth = 0})
        Removed == {i \in 1..Len(doc) : doc[Parent(i)].tag \in NoiseTags \/ doc[i].tag \in NoiseTags}
    IN  KeepFrom(doc, Removed, 1)

content_selectors ==
    << TagSel("article"), ClassSel(<<"a","r","t","i","c","l","e","-","c","o","n","t","e","n","t">>), ClassSel(<<"p","o","s","t","-","c","o","n","t","e","n","t">>),
       ClassSel(<<"e","n","t","r","y","-","c","o","n","t","e","n","t">>), ClassPartSel(<<"a","r","t","i","c","l","e">>),
       ClassPartSel(<<"c","o","n","t","e","n","t">>), ClassSel(<<"s","t","o","r","y","-","b","o","d","y">>), TagSel("main") >>

\* the trimmed texts in the order the two nested loops visit them
RECURSIVE CandidatesFrom(_, _)
CandidatesFrom(doc, k) ==
    IF k > Len(content_selectors) THEN <<>>
    ELSE LET elements == Select(doc, content_selectors[k])
         IN  [j \in 1..Len(elements) |-> Strip(GetText(doc, elements[j]))]
             \o CandidatesFrom(doc, k + 1)

Candidates(doc) == CandidatesFrom(doc, 1)

\* the selector loops with >= in place of >: the last longest text is kept
RECURSIVE KeepLongestLastSeen(_, _, _)
KeepLongestLastSeen(cands, k, content) ==
    IF k > Len(cands) THEN content
    ELSE KeepLongestLastSeen(cands, k + 1,
                             IF Len(cands[k]) >= Len(content) THEN cands[k] ELSE content)

\* content = ""; if len(text) > len(content): content = text
RECURSIVE KeepLongest(_, _, _)
KeepLongest(cands, k, content) ==
    IF k > Len(cands) THEN content
    ELSE KeepLongest(cands, k + 1,
                     IF Len(cands[k]) > Len(content) THEN cands[k] ELSE content)

SelectContent(doc) == KeepLongest(Candidates(doc), 1, <<>>)

\* ' '.join([p.get_text().strip() for p in soup.find_all('p')
\*           if len(p.get_text().strip()) > 20])
RECURSIVE TextsOf(_, _, _)
TextsOf(doc, idx, k) ==
    IF k > Len(idx) THEN <<>>
    ELSE LET text == Strip(GetText(doc, idx[k]))
         IN  (IF Len(text) > MinParagraphLen THEN <<text>> ELSE <<>>)
             \o TextsOf(doc, idx, k + 1)

JoinParagraphs(doc) == Join(TextsOf(doc, Select(doc, TagSel("p")), 1), <<" ">>)

\* the paragraph fallback appending to the short content instead of
\* replacing it
BeforeCleanupKeepsShort(doc) ==
    LET soup == Decompose(doc)
        content == SelectContent(soup)
    IN  IF Len(content) < MinContentLen
        THEN content \o <<" ">> \o JoinParagraphs(soup)
        ELSE content

\* NewsExtractor._extract_article_content, on the page as fetched
BeforeCleanup(doc) ==
    LET soup == Decompose(doc)
        content == SelectContent(soup)
    IN  IF Len(content) < MinContentLen THEN JoinParagraphs(soup) ELSE content

ExtractArticleContent(doc) == Normalize(BeforeCleanup(doc))

\* -------------------------------------------------------------- summarizer
\* _fallback_summarize without the trailing period
FallbackSummarizeNoPeriod(content) ==
    LET sentences == SplitSentences(ReplaceNewlines(content))
    IN  IF Len(sentences) >= FallbackSentences
        THEN Join(Prefix(sentences, FallbackSentences), <<"."," ">>)
        ELSE IF Len(content) > FallbackMaxChars
             THEN Prefix(content, FallbackMaxChars) \o <<".",".",".">>
             ELSE content

\* NewsSummarizer._fallback_summarize
FallbackSummarize(content) ==
    LET sentences == SplitSentences(ReplaceNewlines(content))
    IN  IF Len(sentences) >= FallbackSentences
        THEN Join(Prefix(sentences, FallbackSentences), <<"."," ">>) \o <<".">>
        ELSE IF Len(content) > FallbackMaxChars
             THEN Prefix(content, FallbackMaxChars) \o <<".",".",".">>
             ELSE content

\* " ".join([str(o).strip() for o in output if o]).strip()
JoinFragments(output) ==
    LET kept == SelectSeq(output, LAMBDA o : o # <<>>)
    IN  Strip(Join([k \in 1..Len(kept) |-> Strip(kept[k])], <<" ">>))

\* what client.run(...) may do: return a str, return a list of str, raise
LmOutcomes ==
    { [kind |-> "text", v |-> <<" ","T","h","e"," ","t","e","a","m"," ","f","o","u","n","d"," ","a"," ","f","i","s","h","."," ","\n">>],
      [kind |-> "text", v |-> <<" ","\n">>],
      [kind |-> "text", v |-> <<>>],
      [kind |-> "list", v |-> << <<"A"," ","n","e","w"," ">>, <<>>, <<" ","s","p","e","c","i","e","s">>, <<".","\n">> >>],
      [kind |-> "list", v |-> << <<" ">>, <<>> >>],
      [kind |-> "list", v |-> <<>>],
      [kind |-> "raise", v |-> <<>>] }

\* lines 151-153 of NewsSummarizer.summarize, for an outcome that returned
LmSummary(out) == IF out.kind = "list" THEN JoinFragments(out.v) ELSE Strip(out.v)

\* the prompt's variable parts: the title and content[:3000]
BuildPrompt(title, content) ==
    [title |-> title, content |-> Prefix(content, PromptContentChars)]

\* ------------------------------------------------------------ demo article
DemoUrl == <<"d","e","m","o",":","/","/","s","a","m","p","l","e","-","n","e","w","s","-","a","r","t","i","c","l","e">>
DemoScheme == <<"d","e","m","o",":","/","/">>
DemoArticle ==
    [title |-> <<"B","r","e","a","k","i","n","g",":"," ","S","c","i","e","n","t","i","s","t","s",
            " ","D","i","s","c","o","v","e","r"," ","N","e","w"," ","S","p","e","c","i","e",
            "s"," ","i","n"," ","O","c","e","a","n"," ","D","e","p","t","h","s">>,
     content |-> <<"S","c","i","e","n","t","i","s","t","s"," ","h","a","v","e"," ","d","i","s","c",
            "o","v","e","r","e","d"," ","a"," ","r","e","m","a","r","k","a","b","l","e"," ",
            "n","e","w"," ","s","p","e","c","i","e","s"," ","o","f"," ","d","e","e","p","-",
            "s","e","a"," ","f","i","s","h"," ","i","n"," ","t","h","e"," ","M","a","r","i",
            "a","n","a"," ","T","r","e","n","c","h",","," ","t","h","e"," ","d","e","e","p",
            "e","s","t"," ","p","a","r","t"," ","o","f"," ","t","h","e"," ","w","o","r","l",
            "d","'","s"," ","o","c","e","a","n","s","."," ","T","h","e"," ","n","e","w","l",
            "y"," ","i","d","e","n","t","i","f","i","e","d"," ","s","p","e","c","i","e","s",
            ","," ","t","e","m","p","o","r","a","r","i","l","y"," ","n","a","m","e","d"," ",
            "P","s","e","u","d","o","l","i","p","a","r","i","s"," ","m","a","r","i","a","n",
            "e","n","s","i","s",","," ","w","a","s"," ","f","o","u","n","d"," ","a","t"," ",
            "d","e","p","t","h","s"," ","e","x","c","e","e","d","i","n","g"," ","8",",","0",
            "0","0"," ","m","e","t","e","r","s"," ","b","e","l","o","w"," ","s","e","a"," ",
            "l","e","v","e","l","."," ","T","h","e"," ","d","i","s","c","o","v","e","r","y",
            " ","w","a","s"," ","m","a","d","e"," ","d","u","r","i","n","g"," ","a"," ","r",
            "e","c","e","n","t"," ","e","x","p","e","d","i","t","i","o","n"," ","u","s","i",
            "n","g"," ","a","d","v","a","n","c","e","d"," ","s","u","b","m","e","r","s","i",
            "b","l","e"," ","t","e","c","h","n","o","l","o","g","y","."," ","T","h","e"," ",
            "f","i","s","h"," ","e","x","h","i","b","i","t","s"," ","u","n","i","q","u","e",
            " ","a","d","a","p","t","a","t","i","o","n","s"," ","t","o"," ","e","x","t","r",
            "e","m","e"," ","p","r","e","s","s","u","r","e"," ","e","n","v","i","r","o","n",
            "m","e","n","t","s",","," ","i","n","c","l","u","d","i","n","g"," ","s","p","e",
            "c","i","a","l","i","z","e","d"," ","p","r","o","t","e","i","n","s"," ","t","h",
            "a","t"," ","a","l","l","o","w"," ","i","t","s"," ","c","e","l","l","s"," ","t",
            "o"," ","f","u","n","c","t","i","o","n"," ","u","n","d","e","r"," ","c","r","u",
            "s","h","i","n","g"," ","p","r","e","s","s","u","r","e","."," ","R","e","s","e",
            "a","r","c","h","e","r","s"," ","b","e","l","i","e","v","e"," ","t","h","i","s",
            " ","d","i","s","c","o","v","e","r","y"," ","c","o","u","l","d"," ","p","r","o",
            "v","i","d","e"," ","i","n","s","i","g","h","t","s"," ","i","n","t","o"," ","h",
            "o","w"," ","l","i","f","e"," ","a","d","a","p","t","s"," ","t","o"," ","e","x",
            "t","r","e","m","e"," ","c","o","n","d","i","t","i","o","n","s"," ","a","n","d",
            " ","m","a","y"," ","h","a","v","e"," ","i","m","p","l","i","c","a","t","i","o",
            "n","s"," ","f","o","r"," ","u","n","d","e","r","s","t","a","n","d","i","n","g",
            " ","l","i","f","e"," ","o","n"," ","o","t","h","e","r"," ","p","l","a","n","e",
            "t","s","."," ","T","h","e"," ","t","e","a","m"," ","p","l","a","n","s"," ","t",
            "o"," ","c","o","n","d","u","c","t"," ","f","u","r","t","h","e","r"," ","s","t",
            "u","d","i","e","s"," ","t","o"," ","b","e","t","t","e","r"," ","u","n","d","e",
            "r","s","t","a","n","d"," ","t","h","e"," ","s","p","e","c","i","e","s","'"," ",
            "b","e","h","a","v","i","o","r",","," ","d","i","e","t",","," ","a","n","d"," ",
            "e","c","o","s","y","s","t","e","m"," ","r","o","l","e",".">>,
     url |-> DemoUrl]

\* ------------------------------------------------------------------- state
VARIABLES
    client,          \* replicate_client is configured (module level)
    pc,              \* position of the call in progress
    caller,          \* "http": /api/summarize; "extract", "summarize": a direct call
    url,             \* the url being handled
    demoData,        \* demo_data of the demo branch, None otherwise
    doc,             \* soup: the parsed page, while extract_content runs
    title,           \* extract_content: title
    selected,        \* _extract_article_content: content after the selector loops
    content,         \* extract_content: content
    article,         \* first component of extract_content's result
    error,           \* second component of extract_content's result
    fetchError,      \* the page fetcher raised in this call
    sumArgs,         \* the (title, content) summarize was called with
    prompt,          \* the prompt handed to the capability
    lmOutcome,       \* what client.run did in this call
    summary,         \* the value summarize returned
    response,        \* the handler's response
    extractCalls,    \* calls of extract_content in this request
    fetchCalls,      \* calls of requests.get in this request
    summarizeCalls,  \* calls of summarize in this request
    lmCalls          \* calls of client.run in this request

vars == << client, pc, caller, url, demoData, doc, title, selected, content,
           article, error, fetchError, sumArgs, prompt, lmOutcome, summary,
           response, extractCalls, fetchCalls, summarizeCalls, lmCalls >>

extractVars == << doc, title, selected, content, article, error, fetchError >>
summaryVars == << sumArgs, prompt, lmOutcome, summary >>
callCounts == << extractCalls, fetchCalls, summarizeCalls, lmCalls >>

ErrorResponse(status, msg) == [status |-> status, body |-> [error |-> msg]]

\* state of a process that serves no call
Idle ==
    /\ pc = "idle"
    /\ caller = "none"
    /\ url = <<>>
    /\ demoData = None
    /\ doc = <<>>
    /\ title = None
    /\ selected = None
    /\ content = None
    /\ article = None
    /\ error = None
    /\ fetchError = FALSE
    /\ sumArgs = None
    /\ prompt = None
    /\ lmOutcome = None
    /\ summary = None
    /\ response = None
    /\ extractCalls = 0
    /\ fetchCalls = 0
    /\ summarizeCalls = 0
    /\ lmCalls = 0

\* lines 18-21: the client exists iff REPLICATE_API_TOKEN is set
Init == client \in BOOLEAN /\ Idle

\* bodies of POST /api/summarize: no JSON object, or one with this 'url'
RequestBodies == {None} \cup {Some(u) : u \in UrlSamples}

\* summarize_news, lines 182-190 and 220-221
SummarizeNews(body) ==
    /\ pc = "idle"
    /\ caller' = "http"
    /\ IF body = None
       THEN /\ url' = <<>>
            /\ response' = Some(ErrorResponse(500, "An error occurred: 'NoneType' object has no attribute 'get'"))
            /\ pc' = "done"
       ELSE LET u == Strip(TheValue(body))
            IN  /\ url' = u
                /\ IF u = <<>>
                   THEN response' = Some(ErrorResponse(400, "URL is required")) /\ pc' = "done"
                   ELSE /\ response' = None
                        /\ pc' = IF StartsWith(u, DemoScheme) THEN "demo" ELSE "extract"
    /\ UNCHANGED << client, demoData, extractVars, summaryVars, callCounts >>

\* summarize_news, lines 190-195: the demo branch up to the call of summarize
DemoBranch ==
    /\ pc = "demo"
    /\ demoData' = Some(DemoArticle)
    /\ sumArgs' = Some([title |-> DemoArticle.title, content |-> DemoArticle.content])
    /\ pc' = "summarize"
    /\ UNCHANGED << client, caller, url, extractVars, prompt, lmOutcome, summary,
                    response, callCounts >>

\* urls a caller of extract_content passes: no surrounding blanks
ExtractInputs == {u \in UrlSamples : Strip(u) = u}

\* a direct call extractor.extract_content(u)
CallExtractContent(u) ==
    /\ pc = "idle"
    /\ caller' = "extract"
    /\ url' = u
    /\ pc' = "extract"
    /\ UNCHANGED << client, demoData, extractVars, summaryVars, response, callCounts >>

\* extract_content, lines 31-34
ValidateUrl ==
    /\ pc = "extract"
    /\ extractCalls' = extractCalls + 1
    /\ IF ~IsValidUrl(url)
       THEN /\ article' = None
            /\ error' = Some("Invalid URL format")
            /\ pc' = "extracted"
       ELSE /\ UNCHANGED << article, error >>
            /\ pc' = "fetch"
    /\ UNCHANGED << client, caller, url, demoData, doc, title, selected, content,
                    fetchError, summaryVars, response, fetchCalls, summarizeCalls, lmCalls >>

\* what requests.get followed by raise_for_status may do: hand over a page,
\* or raise a RequestException (timeout, transport error, error status)
FetchCauses == {"Read timed out", "Connection refused", "404 Client Error: Not Found", ""}
FetchOutcomes ==
    {[kind |-> "ok", page |-> d, cause |-> ""] : d \in Documents}
    \cup {[kind |-> "raise", page |-> <<>>, cause |-> c] : c \in FetchCauses}

\* requests has connection adapters for http and https only
HasAdapter(u) == UrlParse(u).scheme \in { <<"h","t","t","p">>, <<"h","t","t","p","s">> }

\* extract_content fetching again after a RequestException
FetchRetries(out) ==
    /\ pc = "fetch"
    /\ out.kind = "ok" => HasAdapter(url)
    /\ fetchCalls' = fetchCalls + 1
    /\ IF out.kind = "ok"
       THEN /\ doc' = out.page
            /\ pc' = "parse"
            /\ UNCHANGED fetchError
       ELSE /\ fetchError' = TRUE
            /\ pc' = "fetch"
            /\ UNCHANGED doc
    /\ UNCHANGED << client, caller, url, demoData, title, selected, content, article,
                    error, summaryVars, response, extractCalls, summarizeCalls, lmCalls >>

\* extract_content, lines 37-41 and 58-59
Fetch(out) ==
    /\ pc = "fetch"
    /\ out.kind = "ok" => HasAdapter(url)
    /\ fetchCalls' = fetchCalls + 1
    /\ IF out.kind = "ok"
       THEN /\ doc' = out.page
            /\ pc' = "parse"
            /\ UNCHANGED << article, error, fetchError >>
       ELSE /\ fetchError' = TRUE
            /\ article' = None
            /\ error' = Some("Error fetching URL: " \o out.cause)
            /\ pc' = "extracted"
            /\ UNCHANGED doc
    /\ UNCHANGED << client, caller, url, demoData, title, selected, content,
                    summaryVars, response, extractCalls, summarizeCalls, lmCalls >>

\* extract_content without the check for empty content
ParsePageKeepsEmpty(raises) ==
    /\ pc = "parse"
    /\ IF raises
       THEN /\ article' = None
            /\ error' = Some("Error processing content: maximum recursion depth exceeded")
            /\ UNCHANGED << title, selected, content >>
       ELSE LET t == ExtractTitle(doc)
                c == ExtractArticleContent(doc)
            IN  /\ title' = Some(t)
                /\ selected' = Some(SelectContent(Decompose(doc)))
                /\ content' = Some(c)
                /\ article' = Some([title |-> t, content |-> c, url |-> url])
                /\ error' = None
    /\ pc' = "extracted"
    /\ UNCHANGED << client, caller, url, demoData, doc, fetchError, summaryVars,
                    response, callCounts >>

\* extract_content, lines 44-56 and 60-61; raises: the parsing or selecting
\* code raised an exception
ParsePage(raises) ==
    /\ pc = "parse"
    /\ IF raises
       THEN /\ article' = None
            /\ error' = Some("Error processing content: maximum recursion depth exceeded")
            /\ UNCHANGED << title, selected, content >>
       ELSE LET t == ExtractTitle(doc)
                c == ExtractArticleContent(doc)
            IN  /\ title' = Some(t)
                /\ selected' = Some(SelectContent(Decompose(doc)))
                /\ content' = Some(c)
                /\ IF c = <<>>
                   THEN article' = None /\ error' = Some("Could not extract article content")
                   ELSE article' = Some([title |-> t, content |-> c, url |-> url]) /\ error' = None
    /\ pc' = "extracted"
    /\ UNCHANGED << client, caller, url, demoData, doc, fetchError, summaryVars,
                    response, callCounts >>

\* the handler testing "error is True", which no str satisfies
TruthyIsTrue(e) == FALSE

\* if error: a str is true unless it is empty
Truthy(e) == e # None /\ TheValue(e) # ""

\* summarize_news, lines 205-211: extract_content has returned
HandleExtraction ==
    /\ pc = "extracted"
    /\ caller = "http"
    /\ IF Truthy(error)
       THEN /\ response' = Some(ErrorResponse(400, TheValue(error)))
            /\ pc' = "done"
            /\ UNCHANGED sumArgs
       ELSE IF article = None
       THEN /\ response' = Some(ErrorResponse(500, "An error occurred: 'NoneType' object is not subscriptable"))
            /\ pc' = "done"
            /\ UNCHANGED sumArgs
       ELSE /\ sumArgs' = Some([title |-> TheValue(article).title,
                                content |-> TheValue(article).content])
            /\ pc' = "summarize"
            /\ UNCHANGED response
    /\ doc' = <<>>
    /\ UNCHANGED << client, caller, url, demoData, title, selected, content, article,
                    error, fetchError, prompt, lmOutcome, summary, callCounts >>

\* the direct call of extract_content returns to its caller
ReturnExtraction ==
    /\ pc = "extracted"
    /\ caller = "extract"
    /\ doc' = <<>>
    /\ pc' = "done"
    /\ UNCHANGED << client, caller, url, demoData, title, selected, content, article,
                    error, fetchError, summaryVars, response, callCounts >>

\* arguments of a direct call summarizer.summarize(title, content)
SummarizeInputs ==
    { [title |-> <<"T">>, content |-> c] :
        c \in { ParaSentences, <<"O","n","e","."," ","T","w","o","."," ","T","h","r","e","e",".">>, <<"O","n","e",".","\n","T","w","o","."," ","T","h","r","e","e">>,
                <<"N","o"," ","f","u","l","l"," ","s","t","o","p"," ","h","e","r","e">>, <<"a","."," ","b">>, <<"."," ","."," ">>, Block510, <<>> } }

CallSummarize(args) ==
    /\ pc = "idle"
    /\ caller' = "summarize"
    /\ sumArgs' = Some(args)
    /\ pc' = "summarize"
    /\ UNCHANGED << client, url, demoData, extractVars, prompt, lmOutcome, summary,
                    response, callCounts >>

\* NewsSummarizer.summarize, lines 133-144
Summarize ==
    /\ pc = "summarize"
    /\ summarizeCalls' = summarizeCalls + 1
    /\ IF ~client
       THEN /\ summary' = Some(FallbackSummarize(TheValue(sumArgs).content))
            /\ pc' = "summarized"
            /\ UNCHANGED prompt
       ELSE /\ prompt' = Some(BuildPrompt(TheValue(sumArgs).title, TheValue(sumArgs).content))
            /\ pc' = "run"
            /\ UNCHANGED summary
    /\ UNCHANGED << client, caller, url, demoData, extractVars, sumArgs, lmOutcome,
                    response, extractCalls, fetchCalls, lmCalls >>

\* summarize without the except clause: an exception of client.run leaves
\* summarize without a value
RunModelRaisePropagates(out) ==
    /\ pc = "run"
    /\ lmCalls' = lmCalls + 1
    /\ lmOutcome' = Some(out)
    /\ IF out.kind = "raise"
       THEN summary' = None /\ pc' = "done"
       ELSE summary' = Some(LmSummary(out)) /\ pc' = "summarized"
    /\ UNCHANGED << client, caller, url, demoData, extractVars, sumArgs, prompt,
                    response, extractCalls, fetchCalls, summarizeCalls >>

\* NewsSummarizer.summarize, lines 146-156
RunModel(out) ==
    /\ pc = "run"
    /\ lmCalls' = lmCalls + 1
    /\ lmOutcome' = Some(out)
    /\ summary' = IF out.kind = "raise"
                  THEN Some(FallbackSummarize(TheValue(sumArgs).content))
                  ELSE Some(LmSummary(out))
    /\ pc' = "summarized"
    /\ UNCHANGED << client, caller, url, demoData, extractVars, sumArgs, prompt,
                    response, extractCalls, fetchCalls, summarizeCalls >>

\* summarize_news, lines 197-202 and 213-218
Respond ==
    /\ pc = "summarized"
    /\ caller = "http"
    /\ response' = Some([status |-> 200,
                         body |-> [success |-> TRUE,
                                   title |-> TheValue(sumArgs).title,
                                   summary |-> TheValue(summary),
                                   url |-> IF demoData # None THEN TheValue(demoData).url ELSE url]])
    /\ pc' = "done"
    /\ UNCHANGED << client, caller, url, demoData, extractVars, summaryVars, callCounts >>

\* the direct call of summarize returns to its caller
ReturnSummary ==
    /\ pc = "summarized"
    /\ caller = "summarize"
    /\ pc' = "done"
    /\ UNCHANGED << client, caller, url, demoData, extractVars, summaryVars, response,
                    callCounts >>

Next ==
    \/ \E body \in RequestBodies : SummarizeNews(body)
    \/ DemoBranch
    \/ \E u \in ExtractInputs : CallExtractContent(u)
    \/ ValidateUrl
    \/ \E out \in FetchOutcomes : Fetch(out)
    \/ \E raises \in BOOLEAN : ParsePage(raises)
    \/ HandleExtraction
    \/ ReturnExtraction
    \/ \E args \in SummarizeInputs : CallSummarize(args)
    \/ Summarize
    \/ \E out \in LmOutcomes : RunModel(out)
    \/ Respond
    \/ ReturnSummary

Spec == Init /\ [][Next]_vars

\* ------------------------------------------------------------------ claims
\* extract_content has returned in the call in progress
ExtractReturned == extractCalls > 0 /\ pc \notin {"extract", "fetch", "parse"}

\* summarize has returned in the call in progress
SummarizeReturned == summarizeCalls > 0 /\ pc \in {"summarized", "done"}

\* summarize took the extractive fallback: no client, or client.run raised
TookFallback ==
    /\ SummarizeReturned
    /\ ~client \/ (lmOutcome # None /\ TheValue(lmOutcome).kind = "raise")

\* C1: a url without a non-empty scheme or without a non-empty network
\* location, or one urlparse raises on, makes extract_content return
\* (None, "Invalid URL format") and requests.get is not called.
C1_InvalidUrlNoFetch ==
    LET r == UrlParse(url)
    IN  (extractCalls > 0 /\ (r.raises \/ r.scheme = <<>> \/ r.netloc = <<>>))
        => /\ pc \in {"extracted", "done"}
           /\ article = None
           /\ error = Some("Invalid URL format")
           /\ fetchCalls = 0

C1_Witness ==
    /\ pc = "extracted"
    /\ UrlParse(url).raises
    /\ error = Some("Invalid URL format")
    /\ fetchCalls = 0

\* C2: in a request whose url does not start with "demo://", a failed
\* extraction means summarize and client.run are never called and the
\* response carries the extraction error; summarize is called only with an
\* article that extract_content returned.
C2_FailureShortCircuits ==
    (caller = "http" /\ ~StartsWith(url, DemoScheme))
    => /\ (ExtractReturned /\ article = None)
            => /\ summarizeCalls = 0
               /\ lmCalls = 0
               /\ pc \in {"extracted", "done"}
               /\ error # None
               /\ pc = "done" => response = Some(ErrorResponse(400, TheValue(error)))
       /\ (pc \in {"summarize", "run", "summarized"} \/ summarizeCalls > 0)
            => /\ article # None
               /\ error = None
               /\ sumArgs = Some([title |-> TheValue(article).title,
                                  content |-> TheValue(article).content])

C2_Witness ==
    /\ caller = "http"
    /\ pc = "done"
    /\ error = Some("Could not extract article content")
    /\ response = Some(ErrorResponse(400, "Could not extract article content"))
    /\ summarizeCalls = 0

\* C3: summarize returns a value whenever it is called; for non-empty
\* content, without a client or when client.run raises, that value is the
\* extractive fallback of the content and is not empty.
C3_SummarizeFallsBack ==
    /\ (summarizeCalls > 0 /\ pc \in {"summarized", "done"}) => summary # None
    /\ (TookFallback /\ TheValue(sumArgs).content # <<>>)
        => /\ summary = Some(FallbackSummarize(TheValue(sumArgs).content))
           /\ TheValue(summary) # <<>>

C3_Witness ==
    /\ pc = "summarized"
    /\ client
    /\ lmOutcome # None
    /\ TheValue(lmOutcome).kind = "raise"
    /\ TheValue(sumArgs).content # <<>>
    /\ summary # None
    /\ TheValue(summary) # <<>>

\* C4: a request for "demo://sample-news-article" is answered with
\* success, a non-empty summary and the demo url, without a call of
\* extract_content or requests.get and with a call of summarize, whatever
\* the capability does.
C4_DemoAlwaysSummarized ==
    (caller = "http" /\ url = DemoUrl /\ pc = "done")
    => /\ response # None
       /\ TheValue(response).status = 200
       /\ TheValue(response).body.success
       /\ TheValue(response).body.summary # <<>>
       /\ TheValue(response).body.url = DemoUrl
       /\ extractCalls = 0
       /\ fetchCalls = 0
       /\ summarizeCalls = 1

\* C5: extract_content returns either an article and no error or an error
\* and no article; an article's content is non-empty, has no whitespace
\* other than single blanks between words, and its url is the input; empty
\* content gives "Could not extract article content" whatever the title.
C5_TaggedOutcome ==
    ExtractReturned
    => /\ (article = None) # (error = None)
       /\ article # None
            => LET a == TheValue(article)
                   c == a.content
               IN  /\ c # <<>>
                   /\ \A i \in 1..Len(c) : IsSpace(c[i]) => c[i] = " "
                   /\ \A i \in 1..(Len(c) - 1) : ~(c[i] = " " /\ c[i + 1] = " ")
                   /\ c[1] # " " /\ c[Len(c)] # " "
                   /\ a.url = url
                   /\ content = Some(c)
                   /\ title = Some(a.title)
       /\ content = Some(<<>>)
            => /\ article = None
               /\ error = Some("Could not extract article content")

C5_Witness ==
    /\ pc = "extracted"
    /\ content = Some(<<>>)
    /\ title # None
    /\ TheValue(title) # PlaceholderTitle
    /\ article = None
    /\ error = Some("Could not extract article content")

\* C6: the content kept by the selector loops is a longest of the trimmed
\* texts the loops visit, and among the longest ones the first visited.
C6_LongestFirstSeen ==
    (pc = "extracted" /\ selected # None)
    => LET cands == Candidates(Decompose(doc))
           sel == TheValue(selected)
           Longest == {k \in 1..Len(cands) :
                          \A j \in 1..Len(cands) : Len(cands[j]) <= Len(cands[k])}
       IN  /\ \A k \in 1..Len(cands) : Len(cands[k]) <= Len(sel)
           /\ IF \A k \in 1..Len(cands) : cands[k] = <<>>
              THEN sel = <<>>
              ELSE sel = cands[Min(Longest)]

C6_Witness ==
    /\ pc = "extracted"
    /\ Len(doc) = 2
    /\ Strip(doc[1].text) = Block50
    /\ Strip(doc[2].text) = Block200
    /\ selected = Some(Block200)

\* C7 as stated: selected content under 100 characters makes the extracted
\* content equal to the space-joined trimmed texts of the paragraphs longer
\* than 20 characters.
C7_ParagraphsVerbatim ==
    (pc = "extracted" /\ selected # None /\ Len(TheValue(selected)) < MinContentLen)
    => content = Some(JoinParagraphs(Decompose(doc)))

\* C7 as amended: that concatenation is the extracted content after the
\* whitespace clean-up (runs of whitespace collapsed to one blank, ends
\* trimmed); the short selected content is no part of it.
C7_ParagraphsNormalized ==
    (pc = "extracted" /\ selected # None /\ Len(TheValue(selected)) < MinContentLen)
    => content = Some(Normalize(JoinParagraphs(Decompose(doc))))

C7_Witness ==
    /\ pc = "extracted"
    /\ selected = Some(Block50)
    /\ content = Some(Normalize(ParaWs))

\* C8: when the content, newlines replaced by blanks, has at least three
\* ". "-separated units, the fallback summary is the content up to the end
\* of the third unit followed by "."; the units joined by ". " are that
\* stretch of the content.
C8_FirstThreeSentences ==
    TookFallback
    => LET s == ReplaceNewlines(TheValue(sumArgs).content)
           Seps == {i \in 1..(Len(s) - 1) : s[i] = "." /\ s[i + 1] = " "}
           end3 == IF Cardinality(Seps) >= 3 THEN Nth(Seps, 3) - 1 ELSE Len(s)
       IN  /\ Cardinality(Seps) >= 2 => summary = Some(SubSeq(s, 1, end3) \o <<".">>)
           /\ TheValue(sumArgs).content = ParaSentences
                => summary = Some(<<"A"," ","i","s"," ","t","r","u","e","."," ","B"," ","i","s"," ","t","r","u","e",
            "."," ","C"," ","i","s"," ","t","r","u","e",".">>)

C8_Witness ==
    /\ TookFallback
    /\ TheValue(sumArgs).content = ParaSentences
    /\ summary = Some(<<"A"," ","i","s"," ","t","r","u","e","."," ","B"," ","i","s"," ","t","r","u","e",
            "."," ","C"," ","i","s"," ","t","r","u","e",".">>)

\* C9 as stated: a page with an h1 of non-empty trimmed text gets the
\* trimmed text of such an h1 as its title.
C9_AnyH1IsTitle ==
    (pc = "extracted" /\ title # None)
    => LET H == {i \in 1..Len(doc) : doc[i].tag = "h1" /\ Strip(GetText(doc, i)) # <<>>}
       IN  H # {} => \E i \in H : title = Some(Strip(GetText(doc, i)))

\* C9 as amended: when the first h1 of the page has non-empty trimmed
\* text, the title is that text, trimmed.
C9_FirstH1IsTitle ==
    (pc = "extracted" /\ title # None)
    => LET H == {i \in 1..Len(doc) : doc[i].tag = "h1"}
       IN  (H # {} /\ Strip(GetText(doc, Min(H))) # <<>>)
           => title = Some(Strip(GetText(doc, Min(H))))

C9_Witness ==
    /\ pc = "extracted"
    /\ Len(doc) = 2
    /\ doc[1].tag = "title"
    /\ doc[2].tag = "h1"
    /\ title = Some(<<"R","e","a","l">>)

\* C10: requests.get and client.run are each called at most once in a
\* request; a fetch that raised ends the call with the fetch error and no
\* summarize; a client.run that raised is followed by the fallback only.
C10_NoRetries ==
    /\ fetchCalls <= 1
    /\ lmCalls <= 1
    /\ fetchError
        => /\ fetchCalls = 1
           /\ pc \in {"extracted", "done"}
           /\ article = None
           /\ error \in {Some("Error fetching URL: " \o c) : c \in FetchCauses}
           /\ summarizeCalls = 0
           /\ lmCalls = 0
           /\ (pc = "done" /\ caller = "http")
                => response = Some(ErrorResponse(400, TheValue(error)))
    /\ (lmOutcome # None /\ TheValue(lmOutcome).kind = "raise")
        => /\ lmCalls = 1
           /\ pc \in {"summarized", "done"}
           /\ summary = Some(FallbackSummarize(TheValue(sumArgs).content))

C10_Witness ==
    /\ caller = "http"
    /\ pc = "done"
    /\ fetchError
    /\ fetchCalls = 1
    /\ response = Some(ErrorResponse(400, "Error fetching URL: Read timed out"))

====
